---- MODULE Spec2Model ----
(***************************************************************************)
(* Model of the issuing-treasury demo application:                         *)
(*   - the onboarding API route (handler / onboard, validationSchema),     *)
(*   - the registration page (validationSchema, handleSubmit).             *)
(*                                                                         *)
(* JavaScript values are modelled as leaves [t |-> type, v |-> text];      *)
(* a JavaScript object is the set of its <<path, leaf>> entries, a path    *)
(* being the sequence of property names leading to the leaf.               *)
(***************************************************************************)
EXTENDS Integers, Sequences, FiniteSets, TLC

VARIABLES
    demoMode,        \* isDemoMode(): process-wide configuration switch
    pc,              \* position of the onboarding request in handler/onboard
    req,             \* the request: method and body
    session,         \* result of getSessionForServerSide
    onboardingData,  \* the Stripe.AccountUpdateParams built by onboard
    calls,           \* external calls made for the request, in order
    responses,       \* responses sent on res, in order
    values,          \* registration form values (email, password, submit)
    errors,          \* registration form errors (email, password, submit)
    isSubmitting,    \* registration form in-progress flag
    page,            \* the page shown: "register", or "home" after sign-in
    subs,            \* the handleSubmit calls so far, each with its position
    net,             \* network calls made by the registration page, in order
    candidate,       \* a password handed to the registration schema
    messages,        \* the messages the schema produced for it
    validated        \* whether the schema has run on the candidate

onboardVars == <<demoMode, pc, req, session, onboardingData, calls, responses>>
registerVars == <<values, errors, isSubmitting, page, subs, net>>
schemaVars == <<candidate, messages, validated>>
vars == <<demoMode, pc, req, session, onboardingData, calls, responses,
          values, errors, isSubmitting, page, subs, net,
          candidate, messages, validated>>

(***************************************************************************)
(* JavaScript values and objects                                           *)
(***************************************************************************)
Undefined == [t |-> "undefined", v |-> ""]
Str(s) == [t |-> "string", v |-> s]
Num(s) == [t |-> "number", v |-> s]
Bool(b) == [t |-> "boolean", v |-> IF b THEN "true" ELSE "false"]

\* mutant: tests that the value is present instead of its truthiness
Mut_Truthy(x) == x.t # "undefined"

\* JavaScript truthiness, as used by `x && {...}` and `if (x)`
Truthy(x) ==
    CASE x.t = "undefined" -> FALSE
      [] x.t = "boolean" -> x.v = "true"
      [] x.t = "number" -> x.v # "0"
      [] OTHER -> x.v # ""

\* { key: leaf }
Leaf(key, leaf) == {<< <<key>>, leaf >>}
\* { key: obj }
Prop(key, obj) == {<< <<key>> \o e[1], e[2] >> : e \in obj}
\* own top-level property names of an object
Keys(obj) == {e[1][1] : e \in obj}
\* { ...a, ...b }: a later property replaces an earlier one of the same name
\* as a whole (no deep merge)
Spread(a, b) == {e \in a : e[1][1] \notin Keys(b)} \cup b
\* ...(cond && obj): spreading a falsy value adds nothing
SpreadIf(cond, obj) == IF cond THEN obj ELSE {}
Has(obj, path) == \E e \in obj : e[1] = path
Get(obj, path) == (CHOOSE e \in obj : e[1] = path)[2]

\* the string of n copies of s
RECURSIVE Rep(_, _)
Rep(s, n) ==
    IF n = 0 THEN ""
    ELSE LET half == Rep(s, n \div 2)
         IN IF n % 2 = 0 THEN half \o half ELSE half \o half \o s


(***************************************************************************)
(* Onboarding API route: inputs                                            *)
(***************************************************************************)
\* Yup.string().max(255)
MaxBusinessNameLen == 255

Methods == {"POST", "GET", "PUT"}

\* req.body.businessName: missing, empty, short, at the limit, over the limit
BusinessNames ==
    {Undefined, Str(""), Str("Acme"), Str("Bolt Ltd"),
     Str(Rep("n", MaxBusinessNameLen)), Str(Rep("n", MaxBusinessNameLen + 1))}

\* req.body.skipOnboarding: missing, a boolean, or a string or a number sent
\* in its place
SkipChoices ==
    {Undefined, Bool(TRUE), Bool(FALSE), Str("false"), Str("tRuE"), Str("yes"),
     Num("1"), Num("0"), Num("2")}

Requests ==
    [method : Methods, businessName : BusinessNames, skipOnboarding : SkipChoices]

Sessions ==
    {[email |-> "ann@example.com", accountId |-> "acct_1"],
     [email |-> "bob@example.com", accountId |-> "acct_2"]}
NoSession == [email |-> "", accountId |-> ""]

\* messages of the errors the external calls may throw
ErrorMessages == {"connection lost", "permission denied"}
\* URLs createAccountOnboardingUrl may return
OnboardingUrls == {"https://connect.example/setup/a", "https://connect.example/setup/b"}

\* TOS_ACCEPTANCE of src/utils/demo-helpers: one opaque value
TOS_ACCEPTANCE == {<< <<>>, [t |-> "object", v |-> "TOS_ACCEPTANCE"] >>}

(***************************************************************************)
(* Onboarding API route: validationSchema                                  *)
(***************************************************************************)
\* the spellings /^(true|1)$/i accepts
TrueSpellings ==
    {a \o b \o c \o d : a \in {"t", "T"}, b \in {"r", "R"}, c \in {"u", "U"}, d \in {"e", "E"}}
    \cup {"1"}
\* the spellings /^(false|0)$/i accepts
FalseSpellings ==
    {a \o b \o c \o d \o e : a \in {"f", "F"}, b \in {"a", "A"}, c \in {"l", "L"},
                              d \in {"s", "S"}, e \in {"e", "E"}}
    \cup {"0"}

\* Yup's boolean cast: a boolean is kept; any other value is turned into
\* its String(value) and cast when that reads true, 1, false or 0 in any
\* letter case (a number's v is its String form)
CastsToBoolean(x) ==
    \/ x.t = "boolean"
    \/ x.t \in {"string", "number"} /\ x.v \in TrueSpellings \cup FalseSpellings

\* Yup's notType message for the boolean; the source text puts a backquote
\* where this string has an apostrophe, and quotes a string value
NotBooleanMessage(x) ==
    "skipOnboarding must be a 'boolean' type, but the final value was: '"
    \o (IF x.t = "string" THEN "\"" \o x.v \o "\"" ELSE x.v) \o "'."

\* mutant: the length limit is not checked
Mut_BusinessNameErrors(name) ==
    IF name.t = "undefined" \/ (name.t = "string" /\ Len(name.v) = 0)
      THEN {"Business name is required"} ELSE {}

\* Yup.string().max(255).required("Business name is required")
BusinessNameErrors(name) ==
    (IF name.t = "undefined" \/ (name.t = "string" /\ Len(name.v) = 0)
       THEN {"Business name is required"} ELSE {})
    \cup
    (IF name.t = "string" /\ Len(name.v) > MaxBusinessNameLen
       THEN {"businessName must be at most 255 characters"} ELSE {})

\* Yup.boolean().required("Skip onboarding choice required")
SkipOnboardingErrors(skip) ==
    IF skip.t = "undefined" THEN {"Skip onboarding choice required"}
    ELSE IF ~CastsToBoolean(skip) THEN {NotBooleanMessage(skip)}
    ELSE {}

\* validationSchema.validate({ businessName, skipOnboarding }, { abortEarly: false }):
\* the set of messages of the failed tests; skipOnboarding belongs to the
\* schema only in demo mode
validationSchemaErrors(demo, businessName, skipOnboarding) ==
    BusinessNameErrors(businessName)
    \cup (IF demo THEN SkipOnboardingErrors(skipOnboarding) ELSE {})

\* ValidationError.message: the message of a single error, or a count
ValidationMessage(errs) ==
    IF Cardinality(errs) = 1 THEN CHOOSE m \in errs : TRUE
    ELSE "2 errors occurred"

(***************************************************************************)
(* Onboarding API route: the account-update payload                        *)
(***************************************************************************)
DemoBusinessProfile ==
    Leaf("mcc", Str("5734"))
    \cup Leaf("product_description", Str("Some demo product"))
    \cup Leaf("url", Str("https://some-company.com"))

DemoIndividual(email) ==
    Prop("address",
         Leaf("line1", Str("address_full_match"))
         \cup Leaf("city", Str("South San Francisco"))
         \cup Leaf("state", Str("CA"))
         \cup Leaf("postal_code", Str("94080"))
         \cup Leaf("country", Str("US")))
    \cup Prop("dob", Leaf("day", Num("1")) \cup Leaf("month", Num("1"))
                     \cup Leaf("year", Num("1901")))
    \cup Leaf("email", Str(email))
    \cup Leaf("first_name", Str("John"))
    \cup Leaf("last_name", Str("Smith"))
    \cup Leaf("phone", Str("0000000000"))

DemoSettings ==
    Prop("settings",
         Prop("card_issuing", Prop("tos_acceptance", TOS_ACCEPTANCE))
         \cup Prop("treasury", Prop("tos_acceptance", TOS_ACCEPTANCE)))

\* mutant: the account-level tos_acceptance is never added
Mut_DemoData(email, skipOnboarding) ==
    Spread(
      Leaf("business_type", Str("individual"))
      \cup Prop("business_profile", DemoBusinessProfile)
      \cup Prop("individual", DemoIndividual(email)),
      DemoSettings)

\* the object spread in demo mode
DemoData(email, skipOnboarding) ==
    Spread(
      Spread(
        Leaf("business_type", Str("individual"))
        \cup Prop("business_profile", DemoBusinessProfile)
        \cup Prop("individual", DemoIndividual(email)),
        SpreadIf(Truthy(skipOnboarding), Prop("tos_acceptance", TOS_ACCEPTANCE))),
      DemoSettings)

\* const onboardingData: Stripe.AccountUpdateParams = { ... }
BuildOnboardingData(demo, email, businessName, skipOnboarding) ==
    Spread(Prop("business_profile", Leaf("name", businessName)),
           SpreadIf(demo, DemoData(email, skipOnboarding)))

(***************************************************************************)
(* Onboarding API route: responses and calls                               *)
(***************************************************************************)
\* apiResponse({ success: false, error: { message } })
ErrorBody(message) ==
    Leaf("success", Bool(FALSE)) \cup Prop("error", Leaf("message", Str(message)))
\* apiResponse({ success: false, error: { message, details } })
ErrorBodyWithDetails(message) ==
    Leaf("success", Bool(FALSE))
    \cup Prop("error", Leaf("message", Str(message))
                       \cup Leaf("details", Str("stack of: " \o message)))
\* apiResponse({ success: true, data: { redirectUrl } })
SuccessBody(redirectUrl) ==
    Leaf("success", Bool(TRUE)) \cup Prop("data", Leaf("redirectUrl", Str(redirectUrl)))

Response(status, body) == [status |-> status, body |-> body]

Call(fn, accountId, params, ok, value) ==
    [fn |-> fn, accountId |-> accountId, params |-> params, ok |-> ok, value |-> value]

\* mutant: the catch answers with a fixed message
Mut_Respond500(message) ==
    /\ responses' = Append(responses, Response(500, ErrorBodyWithDetails("Internal Server Error")))
    /\ pc' = "done"

\* catch (error) of handler: res.status(500).json(...)
Respond500(message) ==
    /\ responses' = Append(responses, Response(500, ErrorBodyWithDetails(message)))
    /\ pc' = "done"

(***************************************************************************)
(* Onboarding API route: handler and onboard, one action per step          *)
(***************************************************************************)
RouteIdle ==
    /\ pc = "idle"
    /\ req = [method |-> "", businessName |-> Undefined, skipOnboarding |-> Undefined]
    /\ session = NoSession
    /\ onboardingData = {}
    /\ calls = <<>>
    /\ responses = <<>>

\* a request arrives at the route
ReceiveRequest ==
    /\ pc = "idle"
    /\ \E r \in Requests : req' = r
    /\ pc' = "handler"
    /\ UNCHANGED <<demoMode, session, onboardingData, calls, responses>>
    /\ UNCHANGED <<registerVars, schemaVars>>

\* mutant: every method is dispatched to onboard
Mut_Handler ==
    /\ pc = "handler"
    /\ pc' = "getSession"
    /\ UNCHANGED <<demoMode, req, session, onboardingData, calls, responses>>
    /\ UNCHANGED <<registerVars, schemaVars>>

\* handler: switch (req.method)
Handler ==
    /\ pc = "handler"
    /\ \/ /\ req.method = "POST"
          /\ pc' = "getSession"
          /\ UNCHANGED responses
       \/ /\ req.method # "POST"
          /\ responses' = Append(responses, Response(400, ErrorBody("Bad Request")))
          /\ pc' = "done"
    /\ UNCHANGED <<demoMode, req, session, onboardingData, calls>>
    /\ UNCHANGED <<registerVars, schemaVars>>

\* onboard: const session = await getSessionForServerSide(req, res)
GetSession ==
    /\ pc = "getSession"
    /\ \/ \E s \in Sessions :
            /\ session' = s
            /\ calls' = Append(calls, Call("getSessionForServerSide", "", {}, TRUE, ""))
            /\ pc' = "validate"
            /\ UNCHANGED responses
       \/ \E m \in ErrorMessages :
            /\ calls' = Append(calls, Call("getSessionForServerSide", "", {}, FALSE, m))
            /\ Respond500(m)
            /\ UNCHANGED session
    /\ UNCHANGED <<demoMode, req, onboardingData>>
    /\ UNCHANGED <<registerVars, schemaVars>>

\* mutant: the catch of the validation answers 400 and does not return
Mut_Validate ==
    /\ pc = "validate"
    /\ LET errs == validationSchemaErrors(demoMode, req.businessName, req.skipOnboarding)
       IN /\ responses' = IF errs # {}
                            THEN Append(responses, Response(400, ErrorBody(ValidationMessage(errs))))
                            ELSE responses
          /\ onboardingData' = BuildOnboardingData(demoMode, session.email,
                                                   req.businessName, req.skipOnboarding)
          /\ pc' = "update"
    /\ UNCHANGED <<demoMode, req, session, calls>>
    /\ UNCHANGED <<registerVars, schemaVars>>

\* onboard: validationSchema.validate(...) and its catch, then the payload
Validate ==
    /\ pc = "validate"
    /\ LET errs == validationSchemaErrors(demoMode, req.businessName, req.skipOnboarding)
       IN \/ /\ errs # {}
             /\ responses' = Append(responses, Response(400, ErrorBody(ValidationMessage(errs))))
             /\ pc' = "done"
             /\ UNCHANGED onboardingData
          \/ /\ errs = {}
             /\ onboardingData' = BuildOnboardingData(demoMode, session.email,
                                                      req.businessName, req.skipOnboarding)
             /\ pc' = "update"
             /\ UNCHANGED responses
    /\ UNCHANGED <<demoMode, req, session, calls>>
    /\ UNCHANGED <<registerVars, schemaVars>>

\* mutant: the shortcut does not test demo mode
Mut_SkipsOnboarding(demo, skipOnboarding) == Truthy(skipOnboarding)

\* if (isDemoMode() && skipOnboarding)
SkipsOnboarding(demo, skipOnboarding) == demo /\ Truthy(skipOnboarding)

\* onboard: await stripe.accounts.update(accountId, onboardingData), then
\* the demo-mode shortcut to the home page
AccountsUpdate ==
    /\ pc = "update"
    /\ \/ /\ calls' = Append(calls, Call("stripe.accounts.update", session.accountId,
                                         onboardingData, TRUE, ""))
          /\ IF SkipsOnboarding(demoMode, req.skipOnboarding)
               THEN /\ responses' = Append(responses, Response(200, SuccessBody("/")))
                    /\ pc' = "done"
               ELSE /\ pc' = "createUrl"
                    /\ UNCHANGED responses
       \/ \E m \in ErrorMessages :
            /\ calls' = Append(calls, Call("stripe.accounts.update", session.accountId,
                                           onboardingData, FALSE, m))
            /\ Respond500(m)
    /\ UNCHANGED <<demoMode, req, session, onboardingData>>
    /\ UNCHANGED <<registerVars, schemaVars>>

\* onboard: const onboardingUrl = await createAccountOnboardingUrl(accountId)
CreateAccountOnboardingUrl ==
    /\ pc = "createUrl"
    /\ \/ \E url \in OnboardingUrls :
            /\ calls' = Append(calls, Call("createAccountOnboardingUrl", session.accountId,
                                           {}, TRUE, url))
            /\ responses' = Append(responses, Response(200, SuccessBody(url)))
            /\ pc' = "done"
       \/ \E m \in ErrorMessages :
            /\ calls' = Append(calls, Call("createAccountOnboardingUrl", session.accountId,
                                           {}, FALSE, m))
            /\ Respond500(m)
    /\ UNCHANGED <<demoMode, req, session, onboardingData>>
    /\ UNCHANGED <<registerVars, schemaVars>>

NextOnboard ==
    \/ ReceiveRequest
    \/ Handler
    \/ GetSession
    \/ Validate
    \/ AccountsUpdate
    \/ CreateAccountOnboardingUrl

(***************************************************************************)
(* Registration page: validationSchema (password)                          *)
(***************************************************************************)
\* Yup.string().max(255) of the password
MaxPasswordLen == 255
\* .min(8, ...)
MinPasswordLen == 8

Digits == {"0", "1", "2", "3", "4", "5", "6", "7", "8", "9"}
Lowercase == {"a", "b", "c", "d", "e", "f", "g", "h", "i", "j", "k", "l", "m",
              "n", "o", "p", "q", "r", "s", "t", "u", "v", "w", "x", "y", "z"}
Uppercase == {"A", "B", "C", "D", "E", "F", "G", "H", "I", "J", "K", "L", "M",
              "N", "O", "P", "Q", "R", "S", "T", "U", "V", "W", "X", "Y", "Z"}

\* a password value: undefined, or a string given as its sequence of characters
PwUndefined == [t |-> "undefined", v |-> <<>>]
PwStr(cs) == [t |-> "string", v |-> cs]

\* mutant: the regex is anchored at the start of the password
Mut_Matches(cs, class) == cs # <<>> /\ cs[1] \in class

\* value.search(regex) !== -1 for a character-class regex
Matches(cs, class) == \E i \in 1..Len(cs) : cs[i] \in class

\* getCharacterValidationError
getCharacterValidationError(str) ==
    "Your password must have at least 1 " \o str \o " character"

\* the password field of validationSchema, validated without abortEarly: the
\* messages of the failed tests. Every test but `required` passes an
\* undefined value.
PasswordErrors(p) ==
    IF p.t = "undefined" THEN {"Password is required"}
    ELSE
      (IF Len(p.v) > MaxPasswordLen
         THEN {"password must be at most 255 characters"} ELSE {})
      \cup (IF Len(p.v) = 0 THEN {"Password is required"} ELSE {})
      \cup (IF Len(p.v) < MinPasswordLen
              THEN {"Password must have at least 8 characters"} ELSE {})
      \cup (IF ~Matches(p.v, Digits) THEN {getCharacterValidationError("digit")} ELSE {})
      \cup (IF ~Matches(p.v, Lowercase)
              THEN {getCharacterValidationError("lowercase")} ELSE {})
      \cup (IF ~Matches(p.v, Uppercase)
              THEN {getCharacterValidationError("uppercase")} ELSE {})

\* longest enumerated password
MaxPwLen == 3
PwAlphabet == {"a", "B", "7", "!"}
\* a password of n characters with a digit, a lowercase and an uppercase letter
StrongOfLen(n) == [i \in 1..n |-> IF i = 1 THEN "A" ELSE IF i = 2 THEN "1" ELSE "b"]
\* a password of n lowercase letters
WeakOfLen(n) == [i \in 1..n |-> "x"]

SchemaPasswords ==
    {PwUndefined}
    \cup {PwStr(cs) : cs \in UNION {[1..n -> PwAlphabet] : n \in 0..MaxPwLen}}
    \cup {PwStr(<<"a", "b", "c">>),
          PwStr(<<"A", "b", "c", "d", "e", "f", "g", "1">>),
          PwStr(<<"a", "b", "c", "d", "e", "f", "g", "1">>),
          PwStr(<<"A", "B", "C", "D", "E", "F", "G", "1">>),
          PwStr(<<"A", "b", "c", "d", "e", "f", "g", "h">>),
          PwStr(<<"A", "b", "c", "d", "e", "f", "1">>),
          PwStr(<<"1", "2", "3", "4", "5", "6", "7", "8">>)}
    \cup {PwStr(StrongOfLen(n)) : n \in {MaxPasswordLen - 1, MaxPasswordLen, MaxPasswordLen + 1}}
    \cup {PwStr(WeakOfLen(MaxPasswordLen + 1))}

\* validationSchema applied to one password
ValidatePassword ==
    /\ ~validated
    /\ messages' = PasswordErrors(candidate)
    /\ validated' = TRUE
    /\ UNCHANGED <<candidate, onboardVars, registerVars>>

SchemaIdle ==
    /\ candidate = PwUndefined
    /\ messages = {}
    /\ validated = FALSE

(***************************************************************************)
(* Registration page: validationSchema (email)                             *)
(***************************************************************************)
\* Yup.string().max(255) of the email
MaxEmailLen == 255

AlphaNumeric == Lowercase \cup Uppercase \cup Digits
\* characters of the local part in Yup's email regex
LocalChars ==
    AlphaNumeric \cup {".", "!", "#", "$", "%", "&", "'", "*", "+", "/", "=", "?",
                       "^", "_", "{", "|", "}", "~", "-"}
\* longest label of a domain in Yup's email regex
MaxLabelLen == 63

\* the domain of the email regex: labels separated by dots, each starting
\* and ending with a letter or digit, with letters, digits and hyphens
\* between, at most 63 characters long
DomainMatches(d) ==
    /\ Len(d) >= 1
    /\ \A i \in 1..Len(d) : d[i] \in AlphaNumeric \cup {"-", "."}
    /\ d[1] \in AlphaNumeric
    /\ d[Len(d)] \in AlphaNumeric
    /\ \A i \in 2..(Len(d) - 1) :
          d[i] = "." => d[i - 1] \in AlphaNumeric /\ d[i + 1] \in AlphaNumeric
    /\ \A i \in 1..(Len(d) - MaxLabelLen) : \E j \in i..(i + MaxLabelLen) : d[j] = "."

\* .email(...): the whole string is local part, "@", domain
EmailMatches(cs) ==
    \E k \in 2..(Len(cs) - 1) :
        /\ cs[k] = "@"
        /\ \A i \in 1..(k - 1) : cs[i] \in LocalChars
        /\ DomainMatches(SubSeq(cs, k + 1, Len(cs)))

\* the email field of validationSchema, validated without abortEarly; the
\* format test passes the empty string, every test but `required` passes an
\* undefined value
EmailErrors(e) ==
    IF e.t = "undefined" THEN {"Email is required"}
    ELSE
      (IF Len(e.v) > 0 /\ ~EmailMatches(e.v) THEN {"Must be a valid email"} ELSE {})
      \cup (IF Len(e.v) > MaxEmailLen THEN {"email must be at most 255 characters"} ELSE {})
      \cup (IF Len(e.v) = 0 THEN {"Email is required"} ELSE {})

(***************************************************************************)
(* Registration page: the form and handleSubmit                            *)
(***************************************************************************)
\* submissions of the form in one behaviour
MaxSubmits == 2

AtExample == <<"@", "e", "x", "a", "m", "p", "l", "e", ".", "c", "o", "m">>
AnnEmail == <<"a", "n", "n">> \o AtExample
\* generateDemoEmail() of src/utils/demo-helpers: one generated address
DemoEmail == <<"d", "e", "m", "o", "-", "u", "s", "e", "r">> \o AtExample
\* a well-formed address of 256 characters
LongEmail == [i \in 1..(MaxEmailLen + 1 - Len(AtExample)) |-> "a"] \o AtExample

\* emails the user may type
FormEmails == {<<>>, AnnEmail, <<"a", "n", "n">>, LongEmail}

\* passwords the user may type
FormPasswords ==
    {<<>>, <<"a", "b", "c">>, <<"A", "b", "c", "d", "e", "f", "g", "1">>,
     <<"S", "e", "c", "r", "e", "t", "9", "9">>}

\* Formik hands an empty field to the schema as undefined
PrepareForValidation(cs) == IF cs = <<>> THEN PwUndefined ELSE PwStr(cs)

\* the form's errors after Formik has validated the values with
\* validationSchema: they replace the errors the form had
ValidateForm(v) ==
    [email |-> EmailErrors(PrepareForValidation(v.email)),
     password |-> PasswordErrors(PrepareForValidation(v.password)),
     submit |-> ""]

\* const initialValues = { email, password, submit }
initialValues(demo) ==
    [email |-> IF demo THEN DemoEmail ELSE <<>>, password |-> <<>>, submit |-> "null"]

NoErrors == [email |-> {}, password |-> {}, submit |-> ""]

\* disabled={!dirty || isSubmitting || !isValid} of the Continue button
CanSubmit ==
    /\ values # initialValues(demoMode)
    /\ ~isSubmitting
    /\ errors = NoErrors

NetCall(fn, i, email, password) ==
    [fn |-> fn, sub |-> i, email |-> email, password |-> password]

Submission(email, password) ==
    [pc |-> "postApi", email |-> email, password |-> password,
     registered |-> FALSE, outcome |-> "pending", message |-> ""]

FormIdle ==
    /\ values = initialValues(demoMode)
    /\ errors = NoErrors
    /\ isSubmitting = FALSE
    /\ page = "register"
    /\ subs = <<>>
    /\ net = <<>>

\* <Field name="email">: the user types an email (the field is disabled in
\* demo mode) and the form validates its values
ChangeEmail ==
    /\ page = "register"
    /\ ~demoMode
    /\ \E cs \in FormEmails :
          /\ cs # values.email
          /\ values' = [values EXCEPT !.email = cs]
          /\ errors' = ValidateForm(values')
    /\ UNCHANGED <<isSubmitting, page, subs, net, onboardVars, schemaVars>>

\* <Field name="password">: the user types a password, also while a
\* submission is in flight, and the form validates its values
ChangePassword ==
    /\ page = "register"
    /\ \E cs \in FormPasswords :
          /\ cs # values.password
          /\ values' = [values EXCEPT !.password = cs]
          /\ errors' = ValidateForm(values')
    /\ UNCHANGED <<isSubmitting, page, subs, net, onboardVars, schemaVars>>

\* the Continue button of <Formik onSubmit={handleSubmit}>: Formik sets
\* isSubmitting and calls handleSubmit with the values, which calls postApi
Submit ==
    /\ page = "register"
    /\ CanSubmit
    /\ Len(subs) < MaxSubmits
    /\ isSubmitting' = TRUE
    /\ subs' = Append(subs, Submission(values.email, values.password))
    /\ net' = Append(net, NetCall("postApi /api/register", Len(subs) + 1,
                                  values.email, values.password))
    /\ UNCHANGED <<values, errors, page, onboardVars, schemaVars>>

\* Formik, when the promise handleSubmit returned settles: isSubmitting is
\* set back to false
SubmitSettled == isSubmitting' = FALSE

\* handleSubmit rejects: nothing after the rejected await runs
Rejected(i, m) ==
    /\ subs' = [subs EXCEPT ![i].pc = "done", ![i].outcome = "rejected", ![i].message = m]
    /\ SubmitSettled
    /\ UNCHANGED <<values, errors, page, net>>

\* onError: setErrors({ submit: (error as Error).message })
OnError(message) == errors' = [email |-> {}, password |-> {}, submit |-> message]

\* onFinally: setSubmitting(false)
OnFinally == isSubmitting' = FALSE

\* handleResult({ result, onSuccess, onError, onFinally }) up to its first
\* await: a successful result runs onSuccess, which calls signIn; a failed
\* one is handed to onError, then onFinally. handleSubmit does not await
\* it, so its promise resolves here.
HandleResult(i, success, m) ==
    /\ \/ /\ success
          /\ subs' = [subs EXCEPT ![i].pc = "signIn", ![i].registered = TRUE]
          /\ net' = Append(net, NetCall("signIn credentials", i, subs[i].email,
                                        subs[i].password))
          /\ UNCHANGED errors
       \/ /\ ~success
          /\ subs' = [subs EXCEPT ![i].pc = "done", ![i].outcome = "registrationFailed",
                                  ![i].message = m]
          /\ OnError(m)
          /\ OnFinally
          /\ UNCHANGED net
    /\ SubmitSettled
    /\ UNCHANGED <<values, page>>

\* handleSubmit: await postApi("/api/register", ...) settles
PostApi ==
    /\ page = "register"
    /\ \E i \in 1..Len(subs) :
          /\ subs[i].pc = "postApi"
          /\ \/ /\ subs' = [subs EXCEPT ![i].pc = "extractJson"]
                /\ UNCHANGED <<values, errors, isSubmitting, page, net>>
             \/ \E m \in ErrorMessages : Rejected(i, m)
    /\ UNCHANGED <<onboardVars, schemaVars>>

\* handleSubmit: await extractJsonFromResponse(response) settles, then
\* handleResult is called
ExtractJson ==
    /\ page = "register"
    /\ \E i \in 1..Len(subs) :
          /\ subs[i].pc = "extractJson"
          /\ \/ HandleResult(i, TRUE, "")
             \/ \E m \in ErrorMessages : HandleResult(i, FALSE, m)
             \/ \E m \in ErrorMessages : Rejected(i, m)
    /\ UNCHANGED <<onboardVars, schemaVars>>

\* onSuccess: await signIn("credentials", ...) settles and its response is
\* checked; an error thrown here is handed to onError; onFinally runs in
\* every case
OnSuccess ==
    /\ page = "register"
    /\ \E i \in 1..Len(subs) :
          /\ subs[i].pc = "signIn"
          /\ \/ /\ subs' = [subs EXCEPT ![i].pc = "done", ![i].outcome = "signedIn"]
                /\ UNCHANGED errors
                /\ OnFinally
                /\ page' = "home"
             \/ /\ subs' = [subs EXCEPT ![i].pc = "done", ![i].outcome = "signInFailed",
                                        ![i].message = "Something went wrong"]
                /\ OnError("Something went wrong")
                /\ OnFinally
                /\ UNCHANGED page
             \/ \E m \in ErrorMessages :
                /\ subs' = [subs EXCEPT ![i].pc = "done", ![i].outcome = "signInFailed",
                                        ![i].message = m]
                /\ OnError(m)
                /\ OnFinally
                /\ UNCHANGED page
    /\ UNCHANGED <<values, net, onboardVars, schemaVars>>

NextRegister ==
    \/ ChangeEmail
    \/ ChangePassword
    \/ Submit
    \/ PostApi
    \/ ExtractJson
    \/ OnSuccess

(***************************************************************************)
(* Specifications                                                          *)
(***************************************************************************)
InitOnboard ==
    /\ demoMode \in BOOLEAN
    /\ RouteIdle
    /\ FormIdle
    /\ SchemaIdle

SpecOnboard == InitOnboard /\ [][NextOnboard]_vars

InitRegister ==
    /\ demoMode \in BOOLEAN
    /\ RouteIdle
    /\ FormIdle
    /\ SchemaIdle

\* the continuations of the awaited calls run once the calls settle
FairSpecRegister ==
    /\ InitRegister
    /\ [][NextRegister]_vars
    /\ WF_vars(PostApi)
    /\ WF_vars(ExtractJson)
    /\ WF_vars(OnSuccess)

InitPassword ==
    /\ demoMode = FALSE
    /\ RouteIdle
    /\ FormIdle
    /\ candidate \in SchemaPasswords
    /\ messages = {}
    /\ validated = FALSE

SpecPassword == InitPassword /\ [][ValidatePassword]_vars

(***************************************************************************)
(* Onboarding API route: properties                                        *)
(***************************************************************************)
CallsTo(fn) == {i \in 1..Len(calls) : calls[i].fn = fn}
SessionCalls == CallsTo("getSessionForServerSide")
UpdateCalls == CallsTo("stripe.accounts.update")
UrlCalls == CallsTo("createAccountOnboardingUrl")
OkCalls(S) == {i \in S : calls[i].ok}

\* the request's businessName is a string of 1..255 characters
NameOk == req.businessName.t = "string" /\ Len(req.businessName.v) \in 1..255
\* the request is a POST whose session lookup succeeded
PostWithSession == req.method = "POST" /\ OkCalls(SessionCalls) # {}
\* the validation step of the request is over
Validated == PostWithSession /\ pc \in {"update", "createUrl", "done"}
Rejected400 == responses # <<>> /\ responses[1].status = 400
Accepted == pc = "update" \/ UpdateCalls # {}

NameOnly(name) == {<< <<"business_profile", "name">>, name >>}

\* the fixed placeholder values of the demo payload
HasPlaceholderKyc(p, email) ==
    /\ << <<"business_type">>, Str("individual") >> \in p
    /\ << <<"business_profile", "mcc">>, Str("5734") >> \in p
    /\ << <<"business_profile", "product_description">>, Str("Some demo product") >> \in p
    /\ << <<"business_profile", "url">>, Str("https://some-company.com") >> \in p
    /\ << <<"individual", "address", "line1">>, Str("address_full_match") >> \in p
    /\ << <<"individual", "address", "city">>, Str("South San Francisco") >> \in p
    /\ << <<"individual", "address", "state">>, Str("CA") >> \in p
    /\ << <<"individual", "address", "postal_code">>, Str("94080") >> \in p
    /\ << <<"individual", "address", "country">>, Str("US") >> \in p
    /\ << <<"individual", "dob", "day">>, Num("1") >> \in p
    /\ << <<"individual", "dob", "month">>, Num("1") >> \in p
    /\ << <<"individual", "dob", "year">>, Num("1901") >> \in p
    /\ << <<"individual", "email">>, Str(email) >> \in p
    /\ << <<"individual", "first_name">>, Str("John") >> \in p
    /\ << <<"individual", "last_name">>, Str("Smith") >> \in p
    /\ << <<"individual", "phone">>, Str("0000000000") >> \in p
    /\ Has(p, <<"settings", "card_issuing", "tos_acceptance">>)
    /\ Has(p, <<"settings", "treasury", "tos_acceptance">>)
    /\ Get(p, <<"settings", "card_issuing", "tos_acceptance">>)
         = Get(p, <<"settings", "treasury", "tos_acceptance">>)

\* C1: for every valid onboarding POST request, in demo mode and outside it,
\* the payload of the account-update call has business_profile.name equal to
\* the submitted businessName.
C1_BusinessNameAlwaysSet ==
    \A i \in UpdateCalls :
        << <<"business_profile", "name">>, req.businessName >> \in calls[i].params

\* C2: outside demo mode a valid POST (whatever skipOnboarding is) makes one
\* account-update call whose payload is only the business name; once that
\* call has succeeded exactly one onboarding-URL request follows it, and once
\* that has succeeded the 200 response carries the URL it returned.
C2_NonDemoSequence ==
    (~demoMode /\ PostWithSession /\ NameOk) =>
        /\ Cardinality(UpdateCalls) <= 1
        /\ Cardinality(UrlCalls) <= 1
        /\ \A i \in UpdateCalls : calls[i].params = NameOnly(req.businessName)
        /\ \A j \in UrlCalls : \E i \in OkCalls(UpdateCalls) : i < j
        /\ pc = "done" =>
             /\ Cardinality(UpdateCalls) = 1
             /\ OkCalls(UpdateCalls) # {} => Cardinality(UrlCalls) = 1
             /\ \A j \in OkCalls(UrlCalls) :
                    responses = <<Response(200, SuccessBody(calls[j].value))>>

C2_Witness ==
    /\ ~demoMode /\ PostWithSession /\ NameOk /\ pc = "done"
    /\ req.skipOnboarding = Bool(TRUE)
    /\ OkCalls(UrlCalls) # {}
    /\ responses[1].status = 200

\* C3: in demo mode a valid POST with skipOnboarding = true makes one
\* account-update call whose payload carries the placeholder KYC fields and
\* the account-level terms-of-service acceptance; once it has succeeded the
\* response is 200 with redirectUrl "/"; no onboarding-URL request is made.
C3_DemoSkip ==
    (demoMode /\ PostWithSession /\ NameOk /\ req.skipOnboarding = Bool(TRUE)) =>
        /\ Cardinality(UpdateCalls) <= 1
        /\ UrlCalls = {}
        /\ \A i \in UpdateCalls :
              /\ HasPlaceholderKyc(calls[i].params, session.email)
              /\ << <<"tos_acceptance">>, Get(TOS_ACCEPTANCE, <<>>) >> \in calls[i].params
        /\ pc = "done" =>
             /\ Cardinality(UpdateCalls) = 1
             /\ OkCalls(UpdateCalls) # {} =>
                    responses = <<Response(200, SuccessBody("/"))>>

C3_Witness ==
    /\ demoMode /\ PostWithSession /\ NameOk /\ req.skipOnboarding = Bool(TRUE)
    /\ pc = "done"
    /\ OkCalls(UpdateCalls) # {}
    /\ responses[1].status = 200

\* C4: once a POST request has been validated, it was rejected with a 400
\* validation error if its businessName is missing, empty or longer than 255
\* characters, or if demo mode is on and skipOnboarding is missing; outside
\* demo mode a request without skipOnboarding and with a valid businessName
\* was accepted.
C4_Validation ==
    Validated =>
        /\ (req.businessName.t = "undefined" \/ Len(req.businessName.v) = 0
              \/ Len(req.businessName.v) > 255) => Rejected400 /\ ~Accepted
        /\ (demoMode /\ req.skipOnboarding.t = "undefined") => Rejected400 /\ ~Accepted
        /\ (~demoMode /\ req.skipOnboarding.t = "undefined" /\ NameOk)
              => Accepted /\ ~Rejected400
        /\ Rejected400 =>
              /\ Get(responses[1].body, <<"success">>) = Bool(FALSE)
              /\ Has(responses[1].body, <<"error", "message">>)

C4_Witness ==
    /\ Validated /\ Rejected400
    /\ req.businessName.t = "string" /\ Len(req.businessName.v) = 256
    /\ req.skipOnboarding = Bool(TRUE)

\* C5: a failed external call (session lookup, account update, onboarding-URL
\* request) is the last call of the request and ends it with a 500 response,
\* success = false and the error's message; no call is made twice, so a
\* successful account update is neither repeated nor followed by a second
\* update when the onboarding-URL request fails.
C5_FailureIsTerminal ==
    /\ \A i \in 1..Len(calls) : ~calls[i].ok =>
          /\ i = Len(calls)
          /\ pc = "done"
          /\ Len(responses) = 1
          /\ responses[1].status = 500
          /\ Get(responses[1].body, <<"success">>) = Bool(FALSE)
          /\ Get(responses[1].body, <<"error", "message">>) = Str(calls[i].value)
    /\ Cardinality(SessionCalls) <= 1
    /\ Cardinality(UpdateCalls) <= 1
    /\ Cardinality(UrlCalls) <= 1

C5_Witness ==
    /\ pc = "done"
    /\ OkCalls(UpdateCalls) # {}
    /\ UrlCalls # {} /\ OkCalls(UrlCalls) = {}
    /\ responses[1].status = 500

\* C8: a request answered with 400 made no account-update call and no
\* onboarding-URL request, and a non-POST request made no call at all, not
\* even the session lookup; this holds in every state, so before and after
\* the response.
C8_400LeavesAccountUntouched ==
    /\ Rejected400 => UpdateCalls = {} /\ UrlCalls = {} /\ pc = "done"
    /\ (pc # "idle" /\ req.method # "POST") => calls = <<>>
    /\ (pc = "done" /\ req.method # "POST") => Rejected400

C8_Witness ==
    /\ Rejected400 /\ req.method = "POST" /\ SessionCalls # {}
    /\ req.businessName = Str("")

\* C9: in demo mode a valid POST with skipOnboarding = false makes one
\* account-update call whose payload is the payload of the skip case without
\* the account-level tos_acceptance (for a boolean skipOnboarding that field
\* is present exactly when it is true); once the update has succeeded one
\* onboarding-URL request follows, and once that has succeeded the 200
\* response carries the URL it returned, never "/".
C9_DemoNoSkip ==
    /\ (demoMode /\ PostWithSession /\ NameOk /\ req.skipOnboarding = Bool(FALSE)) =>
          /\ Cardinality(UpdateCalls) <= 1
          /\ Cardinality(UrlCalls) <= 1
          /\ \A i \in UpdateCalls :
                /\ HasPlaceholderKyc(calls[i].params, session.email)
                /\ ~Has(calls[i].params, <<"tos_acceptance">>)
                /\ calls[i].params \cup Prop("tos_acceptance", TOS_ACCEPTANCE)
                     = BuildOnboardingData(TRUE, session.email, req.businessName, Bool(TRUE))
          /\ \A j \in UrlCalls : \E i \in OkCalls(UpdateCalls) : i < j
          /\ \A r \in 1..Len(responses) :
                << <<"data", "redirectUrl">>, Str("/") >> \notin responses[r].body
          /\ pc = "done" =>
               /\ Cardinality(UpdateCalls) = 1
               /\ OkCalls(UpdateCalls) # {} => Cardinality(UrlCalls) = 1
               /\ \A j \in OkCalls(UrlCalls) :
                      responses = <<Response(200, SuccessBody(calls[j].value))>>
    /\ (demoMode /\ req.skipOnboarding.t = "boolean") =>
          \A i \in UpdateCalls :
              Has(calls[i].params, <<"tos_acceptance">>) <=> req.skipOnboarding = Bool(TRUE)

C9_Witness ==
    /\ demoMode /\ PostWithSession /\ NameOk /\ req.skipOnboarding = Bool(FALSE)
    /\ pc = "done"
    /\ OkCalls(UrlCalls) # {}
    /\ responses[1].status = 200

\* C10: a request has at most one response, has exactly one when it is done,
\* and is never stuck before it; the response has status 200 exactly when
\* success = true, then with data.redirectUrl and no error; it has status 400
\* or 500 exactly when success = false, then with error.message and no data;
\* a 200 response is sent only after an account-update call has succeeded.
C10_ResponseEnvelope ==
    /\ Len(responses) <= 1
    /\ pc = "done" <=> Len(responses) = 1
    /\ pc \notin {"idle", "done"} => ENABLED NextOnboard
    /\ \A r \in 1..Len(responses) :
          LET st == responses[r].status
              body == responses[r].body
          IN /\ st \in {200, 400, 500}
             /\ Has(body, <<"success">>)
             /\ st = 200 <=> Get(body, <<"success">>) = Bool(TRUE)
             /\ st \in {400, 500} <=> Get(body, <<"success">>) = Bool(FALSE)
             /\ st = 200 =>
                  /\ Has(body, <<"data", "redirectUrl">>)
                  /\ "error" \notin Keys(body)
                  /\ OkCalls(UpdateCalls) # {}
             /\ st # 200 =>
                  /\ Has(body, <<"error", "message">>)
                  /\ "data" \notin Keys(body)

C10_Witness ==
    /\ pc = "done" /\ Len(responses) = 1
    /\ responses[1].status = 200
    /\ Get(responses[1].body, <<"data", "redirectUrl">>) = Str("/")

(***************************************************************************)
(* Registration page: properties                                           *)
(***************************************************************************)
HasAllClasses(cs) ==
    /\ Matches(cs, Digits)
    /\ Matches(cs, Lowercase)
    /\ Matches(cs, Uppercase)

\* the rules a password string violates
ViolatedRules(cs) ==
    (IF Len(cs) > 255 THEN {"max"} ELSE {})
    \cup (IF Len(cs) = 0 THEN {"required"} ELSE {})
    \cup (IF Len(cs) < 8 THEN {"min"} ELSE {})
    \cup (IF \A i \in 1..Len(cs) : cs[i] \notin Digits THEN {"digit"} ELSE {})
    \cup (IF \A i \in 1..Len(cs) : cs[i] \notin Lowercase THEN {"lowercase"} ELSE {})
    \cup (IF \A i \in 1..Len(cs) : cs[i] \notin Uppercase THEN {"uppercase"} ELSE {})

\* the message the source gives each rule
RuleMessage(rule) ==
    CASE rule = "max" -> "password must be at most 255 characters"
      [] rule = "required" -> "Password is required"
      [] rule = "min" -> "Password must have at least 8 characters"
      [] rule = "digit" -> "Your password must have at least 1 digit character"
      [] rule = "lowercase" -> "Your password must have at least 1 lowercase character"
      [] rule = "uppercase" -> "Your password must have at least 1 uppercase character"

\* C6 as stated: the schema accepts a password exactly when it has at least
\* 8 characters and contains a digit, a lowercase and an uppercase letter.
C6_AcceptsExactlyStrongPasswords ==
    (validated /\ candidate.t = "string") =>
        (messages = {} <=> (Len(candidate.v) >= 8 /\ HasAllClasses(candidate.v)))

\* C6 amended: the schema accepts a password exactly when it has at least 8
\* and at most 255 characters and contains a digit, a lowercase and an
\* uppercase letter; each rule a password string violates yields its own
\* message, different from the others; "abc" yields the three messages for
\* length, digit and uppercase, and "Abcdefg1" yields none.
C6_PasswordSchema ==
    validated =>
        /\ messages = {} <=>
              /\ candidate.t = "string"
              /\ Len(candidate.v) >= 8
              /\ Len(candidate.v) <= 255
              /\ HasAllClasses(candidate.v)
        /\ candidate.t = "string" =>
              /\ messages = {RuleMessage(r) : r \in ViolatedRules(candidate.v)}
              /\ Cardinality(messages) = Cardinality(ViolatedRules(candidate.v))
        /\ candidate = PwStr(<<"a", "b", "c">>) =>
              messages = {"Password must have at least 8 characters",
                          "Your password must have at least 1 digit character",
                          "Your password must have at least 1 uppercase character"}
        /\ candidate = PwStr(<<"A", "b", "c", "d", "e", "f", "g", "1">>) => messages = {}

C6_Witness ==
    /\ validated
    /\ candidate = PwStr(<<"a", "b", "c">>)
    /\ Cardinality(messages) = 3

Subs == 1..Len(subs)
NetOf(i, fn) == {k \in 1..Len(net) : net[k].sub = i /\ net[k].fn = fn}
Failed(outcome) == outcome \in {"rejected", "registrationFailed", "signInFailed"}

\* in every state: each submission has posted its credentials to the
\* registration endpoint, once and before anything else, and a sign-in is
\* attempted at most once, only after a successful registration result and
\* with the same credentials
C7_Order ==
    \A i \in Subs :
        /\ Cardinality(NetOf(i, "postApi /api/register")) = 1
        /\ \A k \in NetOf(i, "postApi /api/register") :
              /\ net[k].email = subs[i].email
              /\ net[k].password = subs[i].password
              /\ \A j \in 1..Len(net) : net[j].sub = i => k <= j
        /\ Cardinality(NetOf(i, "signIn credentials")) <= 1
        /\ \A k \in NetOf(i, "signIn credentials") :
              /\ subs[i].registered
              /\ net[k].email = subs[i].email
              /\ net[k].password = subs[i].password

\* in every step: a submission that ends in a failure of the registration
\* or of the sign-in has its error set as the form's submit error
C7_Step ==
    \A i \in Subs :
        (subs[i].outcome = "pending" /\ Failed(subs'[i].outcome)) =>
            errors'.submit = subs'[i].message

\* C7: after every form submission the credentials are posted to the
\* registration endpoint first; sign-in is attempted only after a successful
\* registration result; a failed registration or sign-in sets its error as
\* the form's submit error; and in every case the submitting state is
\* eventually cleared.
C7_SubmitSequence ==
    /\ []C7_Order
    /\ [][C7_Step]_vars
    /\ (isSubmitting ~> ~isSubmitting)

====
